---- MODULE Spec2Model ----
(***************************************************************************)
(* A model of TrackerAssist's RTClient (TrackerAssist/tracker_assist.py):  *)
(* construction, the session's headers, field validation, payload          *)
(* construction, dispatch and the interpretation of the response.          *)
(*                                                                         *)
(* Python values are modelled as strings: "None" is None, "" is the empty  *)
(* string, "True"/"False" are the booleans an operation returns, "json"    *)
(* is the parsed body response.json() returns and "url" the value of its   *)
(* '_url' member.  Response bodies are JSON objects (the REST 2.0 API      *)
(* answers in JSON); whether the object has a '_url' member is an input.   *)
(* A string the program builds from parts (a URL, a header value) is the   *)
(* tuple of its parts.                                                     *)
(***************************************************************************)
EXTENDS Integers, Sequences, FiniteSets, TLC

\* ---------------------------------------------------------------- bounds
MaxCalls   == 3   \* operation calls made on one client
MaxSlashes == 1   \* trailing '/' characters of the server argument
MaxConcCalls == 2 \* calls each thread makes in concurrent use

\* ------------------------------------------------------- python helpers
None == "None"

Truthy(x) == x \notin {None, "", "{}"}

InTuple(x, t) == \E i \in 1..Len(t) : t[i] = x

EmptyDict == [f \in {} |-> "kw"]

\* dict.update: the keys of other replace those of d
DictUpdate(d, other) ==
    [f \in (DOMAIN d) \cup (DOMAIN other) |->
        IF f \in DOMAIN other THEN other[f] ELSE d[f]]

\* d[key] = value
DictSet(d, key, value) ==
    [f \in (DOMAIN d) \cup {key} |-> IF f = key THEN value ELSE d[f]]

\* str.rstrip('/') on a string held as a sequence of characters
RECURSIVE Rstrip(_)
Rstrip(s) ==
    IF Len(s) > 0 /\ s[Len(s)] = "/" THEN Rstrip(SubSeq(s, 1, Len(s) - 1)) ELSE s

\* -------------------------------------------------------- VALID_FIELDS
VALID_FIELDS ==
    [ ASSET_FIELDS  |-> <<"Name", "Description", "Status", "Owner", "HeldBy", "Contact">>,
      QUEUE_FIELDS  |-> <<"Name", "Description", "Lifecycle", "SubjectTag",
                          "CorrespondAddress", "CommentAddress">>,
      TICKET_FIELDS |-> <<"Queue", "Status", "Owner", "Requestors", "Cc", "AdminCc",
                          "Content", "ContentType">>,
      USER_FIELDS   |-> <<"EmailAddress", "RealName", "NickName", "Gecos", "Lang", "Timzone",
                          "FreeformContactInfo", "SetEnabled", "Enabled", "SetPrivileged",
                          "CurrentPass", "Pass1", "Pass2", "Organization", "Address1",
                          "Address2", "City", "State", "Zip", "Country", "HomePhone",
                          "WorkPhone", "MobilePhone", "PagerPhone", "Comments">> ]

\* ------------------------------------------------------ the operations
ReadOps   == {"get_queues", "get_queue", "get_queue_history", "get_ticket",
              "get_ticket_history", "raw_search", "get_asset", "get_user",
              "get_user_history"}
CreateOps == {"create_queue", "create_asset", "create_user"}
UpdateOps == {"update_queue", "update_asset", "update_user"}
DeleteOps == {"disable_queue", "delete_ticket", "delete_asset", "disable_user"}
TicketWriteOps == {"create_ticket", "update_ticket", "post_comment"}
AllOps == ReadOps \cup CreateOps \cup UpdateOps \cup DeleteOps
             \cup TicketWriteOps \cup {"upload_file"}

\* the VALID_FIELDS key an operation's validation loop tests against;
\* "-" for an operation whose body has no validation loop
FieldsKey(op) ==
    CASE op \in {"create_queue", "update_queue"} -> "QUEUE_FIELDS"
      [] op \in {"create_asset", "update_asset"} -> "ASSET_FIELDS"
      [] op \in {"create_user", "update_user"}   -> "USER_FIELDS"
      [] OTHER -> "-"

\* the loop `for argument in kwargs.keys(): if argument not in ...: return False`
Rejects(op, kwargs) ==
    /\ FieldsKey(op) # "-"
    /\ \E argument \in DOMAIN kwargs : ~InTuple(argument, VALID_FIELDS[FieldsKey(op)])

\* (variant: the disable operations sent as PUT)
MethodDisableAsPut(op) ==
    CASE op \in ReadOps -> "GET"
      [] op \in CreateOps \cup {"create_ticket", "post_comment", "upload_file"} -> "POST"
      [] op \in UpdateOps \cup {"update_ticket", "disable_queue", "disable_user"} -> "PUT"
      [] OTHER -> "DELETE"

\* the session method each operation calls
Method(op) ==
    CASE op \in ReadOps -> "GET"
      [] op \in CreateOps \cup {"create_ticket", "post_comment", "upload_file"} -> "POST"
      [] op \in UpdateOps \cup {"update_ticket"} -> "PUT"
      [] op \in DeleteOps -> "DELETE"

\* the path appended to self.server
Path(op) ==
    CASE op = "get_queues" -> "/queues/all"
      [] op \in {"get_queue", "get_queue_history", "update_queue", "disable_queue"}
            -> "/queue/{queue_id}"
      [] op = "create_queue" -> "/queue"
      [] op \in {"get_ticket", "update_ticket", "delete_ticket"} -> "/ticket/{ticket_id}"
      [] op = "get_ticket_history" -> "/ticket/{ticket_id}/history"
      [] op = "create_ticket" -> "/ticket"
      [] op \in {"post_comment", "upload_file"} -> "/ticket/{ticket_id}/comment"
      [] op = "raw_search" -> "/tickets"
      [] op \in {"get_asset", "update_asset", "delete_asset"} -> "/asset/{asset_id}"
      [] op = "create_asset" -> "/asset"
      [] op \in {"get_user", "update_user", "disable_user"} -> "/user/{user_id}"
      [] op = "get_user_history" -> "/user/{user_id}/history"
      [] op = "create_user" -> "/user"

\* (variant: every write compared with 201)
SuccessCodeUniform(op) == IF op \in ReadOps THEN 200 ELSE 201

\* the status code each operation compares response.status_code with
SuccessCode(op) ==
    CASE op \in ReadOps -> 200
      [] op \in CreateOps \cup UpdateOps \cup DeleteOps -> 201
      [] op = "create_ticket" -> 201
      [] op = "update_ticket" -> 200
      [] op = "post_comment" -> 201
      [] op = "upload_file" -> 200


\* ------------------------------------------------------------- inputs
\* the server argument: a host followed by 0..MaxSlashes trailing slashes
Servers == { <<"http://rt">> \o [i \in 1..k |-> "/"] : k \in 0..MaxSlashes }
Tokens    == {None, "", "t"}
Usernames == {None, "", "u"}
Passwords == {None, "", "p"}

\* keyword names a caller may supply: allow-listed ones, near misses of
\* them and names of no table
KwNameSets == { {}, {"Name"}, {"Description"}, {"Queue"}, {"Subject"}, {"Status"},
                {"Timzone"}, {"Timezone"}, {"Bogus"},
                {"Name", "Description"}, {"Description", "Bogus"} }
KwargsDicts == { [f \in S |-> "kw"] : S \in KwNameSets }
CustomFieldsArgs == {None, "{}", "cf"}
StatusCodes == {200, 201, 204, 404}

\* -------------------------------------------------------------- state
VARIABLES
    args,       \* the arguments RTClient was constructed with
    phase,      \* "new", "ready" (constructed) or "ctor_raised"
    server,     \* self.server
    headers,    \* self.session.headers
    ctor,       \* the requests __init__ issued: [count, req]
    ncalls,     \* operation calls made on the client
    nreq,       \* requests those calls issued
    nrejected,  \* calls that returned False from a validation loop
    nopenfail,  \* upload_file calls whose open() raised
    last,       \* the most recent call: arguments, request, response, outcome
    tpc,        \* concurrent use: each thread's position and call count
    ctWriter,   \* concurrent use: the call and step that last wrote Content-Type
    wire        \* concurrent use: what was sent with which Content-Type

seqVars  == <<args, phase, ctor, ncalls, nreq, nrejected, nopenfail, last>>
concVars == <<tpc, ctWriter, wire>>
vars == <<args, phase, server, headers, ctor, ncalls, nreq, nrejected, nopenfail,
          last, tpc, ctWriter, wire>>

\* ------------------------------------------------------------ session
\* requests.session(): the library's default headers, no Content-Type
DefaultHeaders ==
    [h \in {"User-Agent", "Accept-Encoding", "Accept", "Connection"} |-> <<"default">>]

\* {'Authorization': f'token {token}', 'Content-Type': 'application/json'}
TokenHeaders(token) ==
    [h \in {"Authorization", "Content-Type"} |->
        IF h = "Authorization" THEN <<"token ", token>> ELSE <<"application/json">>]

NoReq == [method |-> "-", url |-> <<>>, ctype |-> <<"-">>, auth |-> <<"-">>,
          bodyKind |-> "none", payload |-> EmptyDict, hasFile |-> FALSE]

\* the Content-Type the transport derives from the body when the session
\* sets none
BodyContentType(bodyKind) ==
    CASE bodyKind = "json"      -> <<"application/json">>
      [] bodyKind = "form"      -> <<"application/x-www-form-urlencoded">>
      [] bodyKind = "multipart" -> <<"multipart/form-data">>
      [] OTHER                  -> <<"-">>

\* self.session.<method>(url, ...): the request as it leaves, carrying the
\* session's headers as they are at this moment
Request(hdrs, method, url, bodyKind, payload) ==
    [method   |-> method,
     url      |-> url,
     ctype    |-> IF "Content-Type" \in DOMAIN hdrs THEN hdrs["Content-Type"]
                  ELSE BodyContentType(bodyKind),
     auth     |-> IF "Authorization" \in DOMAIN hdrs THEN hdrs["Authorization"]
                  ELSE <<"-">>,
     bodyKind |-> bodyKind,
     payload  |-> payload,
     hasFile  |-> bodyKind = "multipart"]

NoCall == [op |-> "-", kwargs |-> EmptyDict, custom_fields |-> None,
           hdr_before |-> DefaultHeaders, sent |-> FALSE, req |-> NoReq,
           status |-> 0, hasUrl |-> FALSE, result |-> "-", raised |-> "-",
           rejected |-> FALSE]

\* ------------------------------------------------------- construction
Init ==
    /\ args \in [server : Servers, token : Tokens, username : Usernames,
                 password : Passwords]
    /\ phase = "new"
    /\ server = <<>>
    /\ headers = DefaultHeaders
    /\ ctor = [count |-> 0, req |-> NoReq]
    /\ ncalls = 0 /\ nreq = 0 /\ nrejected = 0 /\ nopenfail = 0
    /\ last = NoCall
    /\ tpc = <<>>
    /\ ctWriter = [thread |-> 0, call |-> 0, step |-> "ctor"]
    /\ wire = {}

\* self.server = server.rstrip('/') + '/REST/2.0'
BaseUrl(srv) == Rstrip(srv) \o <<"/REST/2.0">>

\* (variant: the credentials posted to the normalized API base)
AuthUrlNormalized(srv) == Rstrip(srv) \o <<"/REST/2.0">>

\* the address __init__ posts the credentials to
AuthUrl(srv) == srv

\* the session headers __init__ leaves: replaced when a token is given
CtorHeaders(a) == IF Truthy(a.token) THEN TokenHeaders(a.token) ELSE DefaultHeaders

\* the elif branch of __init__ is taken
CtorPosts(a) == ~Truthy(a.token) /\ Truthy(a.username) /\ Truthy(a.password)

\* self.session.post(server, data={'user': username, 'pass': password})
CtorRequest(a) ==
    Request(DefaultHeaders, "POST", AuthUrl(a.server), "form",
            [f \in {"user", "pass"} |-> IF f = "user" THEN a.username ELSE a.password])

\* RTClient.__init__; transportOk = FALSE is session.post raising
Construct ==
    /\ phase = "new"
    /\ server' = BaseUrl(args.server)
    /\ headers' = CtorHeaders(args)
    /\ IF Truthy(args.token)
       THEN /\ ctor' = ctor
            /\ phase' = "ready"
       ELSE IF CtorPosts(args)
       THEN /\ ctor' = [count |-> ctor.count + 1, req |-> CtorRequest(args)]
            /\ \E transportOk \in BOOLEAN :
                   phase' = IF transportOk THEN "ready" ELSE "ctor_raised"
       ELSE /\ ctor' = ctor
            /\ phase' = "ready"
    /\ UNCHANGED <<args, ncalls, nreq, nrejected, nopenfail, last, tpc, ctWriter, wire>>


\* the positional arguments the calls are made with
Name0    == "name0"
Subject0 == "subject0"
Queue0   == "queue0"

\* ---------------------------------------------------------- operations
JSON      == <<"application/json">>
MULTIPART == <<"multipart/form-data">>

\* calls are made one after the other: the next starts once the last returned
CanCall == phase = "ready" /\ ncalls < MaxCalls /\ last.op = "-"

\* a call that returned before reaching the session (validation failure)
ReturnFalse(op, kwargs) ==
    /\ last' = [NoCall EXCEPT !.op = op, !.kwargs = kwargs, !.hdr_before = headers,
                              !.result = "False", !.raised = "no", !.rejected = TRUE]
    /\ ncalls' = ncalls + 1
    /\ nrejected' = nrejected + 1
    /\ UNCHANGED <<args, phase, server, headers, ctor, nreq, nopenfail, tpc, ctWriter, wire>>

\* one self.session.<method>(...) call and what the operation makes of the
\* response; transportOk = FALSE is the transport raising instead of answering
Dispatch(op, kwargs, custom_fields, req, transportOk, status, hasUrl, result, raised) ==
    /\ last' = [NoCall EXCEPT !.op = op, !.kwargs = kwargs,
                              !.custom_fields = custom_fields,
                              !.hdr_before = headers, !.sent = TRUE, !.req = req,
                              !.status = IF transportOk THEN status ELSE 0,
                              !.hasUrl = transportOk /\ hasUrl,
                              !.result = IF transportOk THEN result ELSE "-",
                              !.raised = IF transportOk THEN raised ELSE "Transport"]
    /\ ncalls' = ncalls + 1
    /\ nreq' = nreq + 1
    /\ UNCHANGED <<args, phase, server, ctor, nrejected, nopenfail, tpc, ctWriter, wire>>

\* `return response.status_code == <code>`
BoolResult(op, status) == IF status = SuccessCode(op) THEN "True" ELSE "False"

\* `if response.status_code == 200: return response.json()`
BodyResult(op, status) == IF status = SuccessCode(op) THEN "json" ELSE None

\* get_queues, get_queue, get_queue_history, get_ticket, get_ticket_history,
\* get_asset, get_user, get_user_history
Read(op) ==
    /\ CanCall
    /\ \E transportOk \in BOOLEAN, status \in StatusCodes :
          Dispatch(op, EmptyDict, None,
                   Request(headers, Method(op), server \o <<Path(op)>>, "none", EmptyDict),
                   transportOk, status, FALSE, BodyResult(op, status), "no")
    /\ UNCHANGED headers

\* raw_search
RawSearch ==
    /\ CanCall
    /\ \E transportOk \in BOOLEAN, status \in StatusCodes :
          LET params == [f \in {"query"} |-> "ticket_sql"] IN
          Dispatch("raw_search", EmptyDict, None,
                   Request(headers, Method("raw_search"), server \o <<Path("raw_search")>>,
                           "params", params),
                   transportOk, status, FALSE, BodyResult("raw_search", status), "no")
    /\ UNCHANGED headers

\* the payload create_queue, create_asset and create_user build
CreatePayload(name, kwargs) == DictUpdate([f \in {"Name"} |-> name], kwargs)

\* create_queue, create_asset, create_user
Create(op) ==
    /\ CanCall
    /\ \E kwargs \in KwargsDicts :
          IF Rejects(op, kwargs)
          THEN ReturnFalse(op, kwargs)
          ELSE \E transportOk \in BOOLEAN, status \in StatusCodes :
                  Dispatch(op, kwargs, None,
                           Request(headers, Method(op), server \o <<Path(op)>>, "json",
                                   CreatePayload(Name0, kwargs)),
                           transportOk, status, FALSE, BoolResult(op, status), "no")
    /\ UNCHANGED headers

\* update_queue, update_asset, update_user
Update(op) ==
    /\ CanCall
    /\ \E kwargs \in KwargsDicts :
          IF Rejects(op, kwargs)
          THEN ReturnFalse(op, kwargs)
          ELSE \E transportOk \in BOOLEAN, status \in StatusCodes :
                  Dispatch(op, kwargs, None,
                           Request(headers, Method(op), server \o <<Path(op)>>, "json",
                                   kwargs),
                           transportOk, status, FALSE, BoolResult(op, status), "no")
    /\ UNCHANGED headers

\* disable_queue, delete_ticket, delete_asset, disable_user
Delete(op) ==
    /\ CanCall
    /\ \E transportOk \in BOOLEAN, status \in StatusCodes :
          Dispatch(op, EmptyDict, None,
                   Request(headers, Method(op), server \o <<Path(op)>>, "none", EmptyDict),
                   transportOk, status, FALSE, BoolResult(op, status), "no")
    /\ UNCHANGED headers

\* the payload create_ticket builds
TicketPayload(subject, queue, custom_fields, kwargs) ==
    LET payload0 == [f \in {"Queue", "Subject"} |-> IF f = "Queue" THEN queue ELSE subject]
        payload1 == IF Truthy(custom_fields)
                    THEN DictSet(payload0, "CustomFields", custom_fields)
                    ELSE payload0
    IN  IF DOMAIN kwargs # {} THEN DictUpdate(payload1, kwargs) ELSE payload1

\* create_ticket: response.json()['_url'] on 201, a KeyError when the body
\* has no '_url', None (falling off the end) on any other status
CreateTicket ==
    /\ CanCall
    /\ \E kwargs \in KwargsDicts, custom_fields \in CustomFieldsArgs,
          transportOk \in BOOLEAN, status \in StatusCodes, hasUrl \in BOOLEAN :
          Dispatch("create_ticket", kwargs, custom_fields,
                      Request(headers, Method("create_ticket"),
                              server \o <<Path("create_ticket")>>, "json",
                              TicketPayload(Subject0, Queue0, custom_fields, kwargs)),
                      transportOk, status, hasUrl,
                      IF status = SuccessCode("create_ticket")
                      THEN (IF hasUrl THEN "url" ELSE "-")
                      ELSE None,
                      IF status = SuccessCode("create_ticket") /\ ~hasUrl
                      THEN "KeyError" ELSE "no")
    /\ UNCHANGED headers

\* the payload update_ticket builds
TicketUpdatePayload(custom_fields, kwargs) ==
    IF Truthy(custom_fields)
    THEN DictUpdate([f \in {"CustomFields"} |-> custom_fields], kwargs)
    ELSE kwargs

\* update_ticket
UpdateTicket ==
    /\ CanCall
    /\ \E kwargs \in KwargsDicts, custom_fields \in CustomFieldsArgs,
          transportOk \in BOOLEAN, status \in StatusCodes :
          Dispatch("update_ticket", kwargs, custom_fields,
                      Request(headers, Method("update_ticket"),
                              server \o <<Path("update_ticket")>>, "json",
                              TicketUpdatePayload(custom_fields, kwargs)),
                      transportOk, status, FALSE, BoolResult("update_ticket", status), "no")
    /\ UNCHANGED headers

\* the payload post_comment builds
CommentPayload(comment, content_type, custom_fields, kwargs) ==
    LET payload0 == [f \in {"Content", "ContentType"} |->
                        IF f = "Content" THEN comment ELSE content_type]
        payload1 == IF Truthy(custom_fields)
                    THEN DictSet(payload0, "CustomFields", custom_fields)
                    ELSE payload0
    IN  DictUpdate(payload1, kwargs)

\* post_comment
PostComment ==
    /\ CanCall
    /\ \E kwargs \in KwargsDicts, custom_fields \in CustomFieldsArgs,
          transportOk \in BOOLEAN, status \in StatusCodes :
          Dispatch("post_comment", kwargs, custom_fields,
                   Request(headers, Method("post_comment"),
                           server \o <<Path("post_comment")>>, "json",
                           CommentPayload("comment0", "text/plain", custom_fields, kwargs)),
                   transportOk, status, FALSE, BoolResult("post_comment", status), "no")
    /\ UNCHANGED headers


\* (variant: the session header left alone)
UploadSetHeaderSkipped(hdrs) == hdrs

\* self.session.headers['Content-Type'] = 'multipart/form-data'
UploadSetHeader(hdrs) == DictSet(hdrs, "Content-Type", MULTIPART)

\* self.session.headers['Content-Type'] = 'application/json'
UploadResetHeader(hdrs) == DictSet(hdrs, "Content-Type", JSON)

\* the request upload_file posts: json= and files= together, the files win
UploadRequest(hdrs, srv) ==
    Request(hdrs, Method("upload_file"), srv \o <<Path("upload_file")>>, "multipart",
            [f \in {"Attachment"} |-> "file_name0"])

\* upload_file; fileOk = FALSE is open(file_path, 'rb') raising
UploadFile ==
    /\ CanCall
    /\ \E fileOk \in BOOLEAN, transportOk \in BOOLEAN, status \in StatusCodes :
          LET toggled == UploadSetHeader(headers) IN
          IF ~fileOk
          THEN /\ headers' = toggled
               /\ last' = [NoCall EXCEPT !.op = "upload_file", !.hdr_before = headers,
                                         !.raised = "OSError"]
               /\ ncalls' = ncalls + 1
               /\ nopenfail' = nopenfail + 1
               /\ UNCHANGED <<args, phase, server, ctor, nreq, nrejected,
                              tpc, ctWriter, wire>>
          ELSE /\ Dispatch("upload_file", EmptyDict, None, UploadRequest(toggled, server),
                           transportOk, status, FALSE,
                           BoolResult("upload_file", status), "no")
               /\ headers' = IF transportOk THEN UploadResetHeader(toggled) ELSE toggled

\* the call is over: its arguments, payload and response go out of scope
Return ==
    /\ last.op # "-"
    /\ last' = NoCall
    /\ UNCHANGED <<args, phase, server, headers, ctor, ncalls, nreq, nrejected,
                   nopenfail, tpc, ctWriter, wire>>

Next ==
    \/ Construct
    \/ Return
    \/ \E op \in ReadOps \ {"raw_search"} : Read(op)
    \/ RawSearch
    \/ \E op \in CreateOps : Create(op)
    \/ \E op \in UpdateOps : Update(op)
    \/ \E op \in DeleteOps : Delete(op)
    \/ CreateTicket
    \/ UpdateTicket
    \/ PostComment
    \/ UploadFile

Spec == Init /\ [][Next]_vars


\* ------------------------------------------------------ concurrent use
\* Two threads call operations on one client.  The session and its headers
\* are shared; nothing in RTClient locks them.  upload_file is four steps
\* (set the header, open the file, post, reset the header) between which
\* the other thread may run; every other operation reads the headers once,
\* when its request is prepared.
Threads == {1, 2}

\* the clients concurrent use starts from: constructed, nothing called yet
ConcArgs == { a \in [server : Servers, token : Tokens, username : Usernames,
                     password : Passwords] :
                /\ a.server = <<"http://rt">>
                /\ \/ a.token = "t" /\ a.username = None /\ a.password = None
                   \/ a.token = None /\ a.username = "u" /\ a.password = "p" }

InitConc ==
    /\ args \in ConcArgs
    /\ phase = "ready"
    /\ server = BaseUrl(args.server)
    /\ headers = CtorHeaders(args)
    /\ ctor = IF CtorPosts(args) THEN [count |-> 1, req |-> CtorRequest(args)]
              ELSE [count |-> 0, req |-> NoReq]
    /\ ncalls = 0 /\ nreq = 0 /\ nrejected = 0 /\ nopenfail = 0
    /\ last = NoCall
    /\ tpc = [t \in Threads |-> [pc |-> "idle", call |-> 0]]
    /\ ctWriter = [thread |-> 0, call |-> 0, step |-> "ctor"]
    /\ wire = {}

\* the body each operation other than upload_file sends
BodyKind(op) ==
    CASE op \in CreateOps \cup UpdateOps \cup TicketWriteOps -> "json"
      [] op = "raw_search" -> "params"
      [] OTHER -> "none"

\* what is recorded of a request as it leaves: who sent it, its
\* Content-Type, and the call and step that last wrote the session's header
Sent(t, call, kind, req) ==
    [thread |-> t, call |-> call, kind |-> kind, ctype |-> req.ctype,
     writer |-> ctWriter,
     writerInFlight |-> /\ ctWriter.thread \in Threads \ {t}
                        /\ tpc[ctWriter.thread].call = ctWriter.call
                        /\ tpc[ctWriter.thread].pc # "idle"]

\* thread t runs an operation other than upload_file, start to end
ConcCall(t, op) ==
    /\ tpc[t].pc = "idle" /\ tpc[t].call < MaxConcCalls
    /\ tpc' = [tpc EXCEPT ![t].call = @ + 1]
    /\ wire' = wire \cup
          { Sent(t, tpc[t].call + 1, "json",
                 Request(headers, Method(op), server \o <<Path(op)>>, BodyKind(op),
                         EmptyDict)) }
    /\ UNCHANGED <<args, phase, server, headers, ctor, ncalls, nreq, nrejected,
                   nopenfail, last, ctWriter>>

\* upload_file, line 216
ConcUploadSet(t) ==
    /\ tpc[t].pc = "idle" /\ tpc[t].call < MaxConcCalls
    /\ headers' = UploadSetHeader(headers)
    /\ ctWriter' = [thread |-> t, call |-> tpc[t].call + 1, step |-> "set"]
    /\ tpc' = [tpc EXCEPT ![t] = [pc |-> "open", call |-> @.call + 1]]
    /\ UNCHANGED <<args, phase, server, ctor, ncalls, nreq, nrejected, nopenfail,
                   last, wire>>

\* upload_file, line 218: open() returns or raises
ConcUploadOpen(t) ==
    /\ tpc[t].pc = "open"
    /\ \E fileOk \in BOOLEAN :
          tpc' = [tpc EXCEPT ![t].pc = IF fileOk THEN "post" ELSE "idle"]
    /\ UNCHANGED <<args, phase, server, headers, ctor, ncalls, nreq, nrejected,
                   nopenfail, last, ctWriter, wire>>

\* upload_file, lines 220-221: the post answers or raises
ConcUploadPost(t) ==
    /\ tpc[t].pc = "post"
    /\ wire' = wire \cup { Sent(t, tpc[t].call, "upload", UploadRequest(headers, server)) }
    /\ \E transportOk \in BOOLEAN :
          tpc' = [tpc EXCEPT ![t].pc = IF transportOk THEN "reset" ELSE "idle"]
    /\ UNCHANGED <<args, phase, server, headers, ctor, ncalls, nreq, nrejected,
                   nopenfail, last, ctWriter>>

\* upload_file, lines 223-225
ConcUploadReset(t) ==
    /\ tpc[t].pc = "reset"
    /\ headers' = UploadResetHeader(headers)
    /\ ctWriter' = [thread |-> t, call |-> tpc[t].call, step |-> "reset"]
    /\ tpc' = [tpc EXCEPT ![t].pc = "idle"]
    /\ UNCHANGED <<args, phase, server, ctor, ncalls, nreq, nrejected, nopenfail,
                   last, wire>>

NextConc ==
    \/ \E t \in Threads, op \in AllOps \ {"upload_file"} : ConcCall(t, op)
    \/ \E t \in Threads : ConcUploadSet(t)
    \/ \E t \in Threads : ConcUploadOpen(t)
    \/ \E t \in Threads : ConcUploadPost(t)
    \/ \E t \in Threads : ConcUploadReset(t)

SpecConc == InitConc /\ [][NextConc]_vars


\* =============================================================== claims
\* The tables below are those of the specification's sections 3, 4.3 and
\* 4.4, against which the operations above are compared.

ValidatedOps == {"create_queue", "update_queue", "create_ticket", "update_ticket",
                 "create_asset", "update_asset", "create_user", "update_user"}

ResourceOf(op) ==
    CASE op \in {"create_queue", "update_queue"}   -> "Queue"
      [] op \in {"create_ticket", "update_ticket"} -> "Ticket"
      [] op \in {"create_asset", "update_asset"}   -> "Asset"
      [] op \in {"create_user", "update_user"}     -> "User"

\* section 3, "Mutable attributes (allow-listed)"
AllowList(R) ==
    CASE R = "Queue"  -> {"Name", "Description", "Lifecycle", "SubjectTag",
                          "CorrespondAddress", "CommentAddress"}
      [] R = "Ticket" -> {"Queue", "Status", "Owner", "Requestors", "Cc", "AdminCc",
                          "Content", "ContentType"}
      [] R = "Asset"  -> {"Name", "Description", "Status", "Owner", "HeldBy", "Contact"}
      [] R = "User"   -> {"EmailAddress", "RealName", "NickName", "Gecos", "Lang",
                          "Timezone", "FreeformContactInfo", "SetEnabled", "Enabled",
                          "SetPrivileged", "CurrentPass", "Pass1", "Pass2",
                          "Organization", "Address1", "Address2", "City", "State", "Zip",
                          "Country", "HomePhone", "WorkPhone", "MobilePhone",
                          "PagerPhone", "Comments"}

\* the table the client itself holds for a resource
ClientTable(R) ==
    CASE R = "Queue"  -> VALID_FIELDS.QUEUE_FIELDS
      [] R = "Ticket" -> VALID_FIELDS.TICKET_FIELDS
      [] R = "Asset"  -> VALID_FIELDS.ASSET_FIELDS
      [] R = "User"   -> VALID_FIELDS.USER_FIELDS

Called == last.op # "-"
Answered == last.sent /\ last.status # 0

\* C1: a create or update call that is given a keyword name outside its
\* resource's table issues no HTTP request.
C1_InvalidFieldNoRequest ==
    (/\ last.op \in ValidatedOps
     /\ \E f \in DOMAIN last.kwargs : ~InTuple(f, ClientTable(ResourceOf(last.op))))
        => ~last.sent

\* C2: validation in a resource's create and update operations succeeds
\* exactly when the supplied names are a subset of the allow-list section 3
\* gives for that resource.
C2_ValidationIffAllowListed ==
    last.op \in ValidatedOps
        => (~last.rejected <=> DOMAIN last.kwargs \subseteq AllowList(ResourceOf(last.op)))

\* section 4.4: the one status code each operation counts as success
ExpectedCode(op) ==
    CASE op \in {"create_queue", "update_queue", "disable_queue",
                 "create_asset", "update_asset", "delete_asset",
                 "create_user", "update_user", "disable_user",
                 "delete_ticket", "post_comment"} -> 201
      [] op \in {"update_ticket", "upload_file"} -> 200
      [] OTHER -> 200

ReadClass == {"get_queues", "get_queue", "get_queue_history", "get_ticket",
              "get_ticket_history", "get_asset", "get_user", "get_user_history",
              "raw_search"}

\* C3: an answered operation other than create_ticket reports success
\* exactly when the status is its one expected code: a read returns the
\* parsed body on 200 and None otherwise, every other operation returns
\* True on its code and False on any other.
C3_SuccessIffExpectedCode ==
    (Answered /\ last.op # "create_ticket") =>
        /\ last.raised = "no"
        /\ IF last.op \in ReadClass
           THEN last.result = (IF last.status = 200 THEN "json" ELSE None)
           ELSE last.result = (IF last.status = ExpectedCode(last.op) THEN "True" ELSE "False")

\* an adjacent 2xx code is not success: update_ticket answered 201
C3_Witness ==
    Answered /\ last.op = "update_ticket" /\ last.status = 201 /\ last.result = "False"

\* C4: whatever way upload_file ends, the session's Content-Type is
\* application/json afterwards.
C4_UploadRestoresContentType ==
    last.op = "upload_file"
        => ("Content-Type" \in DOMAIN headers /\ headers["Content-Type"] = JSON)

\* C5: the payload a creation operation sends holds every required field
\* with the value of the caller's positional argument.
C5_RequiredFieldsKept ==
    last.sent =>
        /\ last.op \in {"create_queue", "create_asset", "create_user"}
              => ("Name" \in DOMAIN last.req.payload /\ last.req.payload["Name"] = Name0)
        /\ last.op = "create_ticket"
              => /\ {"Subject", "Queue"} \subseteq DOMAIN last.req.payload
                 /\ last.req.payload["Subject"] = Subject0
                 /\ last.req.payload["Queue"] = Queue0

\* C6: create_ticket returns the URL only on a 201 whose body has '_url';
\* on every other response it returns None and does not raise.
C6_CreateTicketUrlOrNone ==
    (Answered /\ last.op = "create_ticket") =>
        IF last.status = 201 /\ last.hasUrl
        THEN last.result = "url" /\ last.raised = "no"
        ELSE last.result = None /\ last.raised = "no"

\* a credential is supplied when it is given and not empty
Supplied(x) == x # None /\ x # ""
HasToken == Supplied(args.token)
HasPair  == Supplied(args.username) /\ Supplied(args.password)

\* what construction does, by the credentials given (section 4.1)
ConstructionAsSpecified ==
    /\ phase = "new" => ctor.count = 0
    /\ phase = "ctor_raised" => (~HasToken /\ HasPair)
    /\ (phase # "new" /\ (HasToken \/ ~HasPair)) => ctor.count = 0
    /\ (phase # "new" /\ ~HasToken /\ HasPair) =>
          /\ ctor.count = 1
          /\ ctor.req.method = "POST"
          /\ ctor.req.url = args.server
          /\ ctor.req.bodyKind = "form"
          /\ ctor.req.payload = [f \in {"user", "pass"} |->
                                    IF f = "user" THEN args.username ELSE args.password]

\* C7 as stated: construction as specified, and a client built with no
\* credentials issues a request on every operation called on it.
C7_AsStated ==
    /\ ConstructionAsSpecified
    /\ (Called /\ ~HasToken /\ ~HasPair) => last.sent

\* C7 as amended: construction as specified, and a client built with no
\* credentials issues a request on every operation called on it except a
\* call rejected by field validation and an upload_file whose file cannot
\* be opened.
C7_Construction ==
    /\ ConstructionAsSpecified
    /\ (Called /\ ~HasToken /\ ~HasPair) =>
          (last.sent <=> ~(last.rejected \/ last.raised = "OSError"))

C7_Witness ==
    /\ ~HasToken /\ ~HasPair /\ phase = "ready" /\ ctor.count = 0
    /\ nrejected > 0 /\ last.sent /\ last.status = 404

\* section 4.3: the HTTP method of each class of operation
MethodOfClass(op) ==
    CASE op \in ReadClass -> "GET"
      [] op \in {"create_queue", "create_ticket", "create_asset", "create_user",
                 "post_comment", "upload_file"} -> "POST"
      [] op \in {"update_queue", "update_ticket", "update_asset", "update_user"} -> "PUT"
      [] op \in {"disable_queue", "delete_ticket", "delete_asset", "disable_user"}
            -> "DELETE"

\* C8 as stated: a dispatched call issues one request with the method of its
\* class, and after n calls exactly n minus the calls rejected by field
\* validation requests have been issued.
C8_AsStated ==
    /\ last.sent => last.req.method = MethodOfClass(last.op)
    /\ nreq <= ncalls
    /\ nreq = ncalls - nrejected

\* C8 as amended: ... after n calls exactly n minus the calls rejected by
\* field validation minus the upload_file calls whose file could not be
\* opened.
C8_OneRequestPerDispatch ==
    /\ last.sent => last.req.method = MethodOfClass(last.op)
    /\ Called => (last.sent <=> ~(last.rejected \/ last.raised = "OSError"))
    /\ nreq <= ncalls
    /\ nreq = ncalls - nrejected - nopenfail

C8_Witness ==
    /\ ncalls = 3 /\ nrejected = 1 /\ nopenfail = 1 /\ nreq = 1
    /\ last.sent /\ last.req.method = "DELETE"

\* C9: in concurrent use a request leaves with a Content-Type its own call
\* did not establish only through an upload_file toggle of another call: a
\* JSON operation carries multipart/form-data only when an upload's set
\* wrote the header last, and an upload carries anything but
\* multipart/form-data only when another call's reset wrote it last, and
\* then it carries application/json.
C9_ForeignToggleOnTheWire ==
    \A e \in wire :
        /\ (e.kind = "json" /\ e.ctype = MULTIPART) => e.writer.step = "set"
        /\ (e.kind = "upload" /\ e.ctype # MULTIPART) =>
              /\ e.ctype = JSON
              /\ e.writer.step = "reset"
              /\ <<e.writer.thread, e.writer.call>> # <<e.thread, e.call>>

\* both interleavings happened: a JSON operation sent as multipart while the
\* other thread's upload was in flight, and an upload sent as
\* application/json after the other thread's upload had reset the header
C9_Witness ==
    /\ \E e \in wire : e.kind = "json" /\ e.ctype = MULTIPART /\ e.writerInFlight
    /\ \E e \in wire : /\ e.kind = "upload" /\ e.ctype = JSON
                       /\ e.writer.thread \in Threads \ {e.thread}
                       /\ e.writer.step = "reset"

\* C10: an operation that returns normally leaves the session's headers as
\* they were before the call.
C10_HeadersUnchanged ==
    (Called /\ last.raised = "no") => headers = last.hdr_before

====
